---- MODULE Spec2Model ----
(***************************************************************************)
(* Library catalogue micro-service (Book / Author / Category).             *)
(*                                                                         *)
(* The specifications of this module:                                      *)
(*   Spec      the document store and the create / update / delete         *)
(*             requests of the three services;                             *)
(*   SpecIsbn  the ISBN field of the Book document: its pattern, the       *)
(*             validate_isbn validator and the two check-digit routines;   *)
(*   SpecSlug  the slug field of the Category schema and document;         *)
(*   SpecAge   Author.get_age over calendar dates;                         *)
(*   SpecConc  update requests served concurrently, each in two steps:     *)
(*             the load of the document and its save;                      *)
(*   SpecSeq   any sequence of the requests that carry no body (get,       *)
(*             delete, the category tree) on the document store;           *)
(*   SpecRace  update_book in its two steps with delete_book in between;   *)
(*   SpecDb    the start-up and shutdown events of main.py and the         *)
(*             functions of config/database.py;                            *)
(*   SpecSocial, SpecKeywords, SpecLists                                   *)
(*             the social_media validator of Author, the keywords          *)
(*             validator and add_keyword of Category, add_genre and        *)
(*             add_award of Author.                                        *)
(*                                                                         *)
(* Strings that the code inspects character by character (ISBN, slug) are  *)
(* sequences of one-character strings.                                     *)
(*                                                                         *)
(* The code writes its field constraints as Field(regex=...) and its       *)
(* validators as @validator, and dumps payloads with                       *)
(* model_dump(exclude_unset=True).  The model reads each call by what it   *)
(* denotes: the pattern is a constraint of the field and is checked        *)
(* before the field's validator runs, a validator sees in `values` only    *)
(* the fields declared before its own, and the dump holds exactly the      *)
(* fields the request supplied.                                            *)
(***************************************************************************)
EXTENDS Integers, Sequences, FiniteSets, TLC

VARIABLES
    books,        \* the "books" collection: stored id -> document
    authors,      \* the "authors" collection: stored id -> document
    categories,   \* the "categories" collection: stored id -> document
    nextId,       \* next identifier the store hands out, per collection
    clock,        \* datetime.utcnow(), counted in ticks
    resp,         \* the last request and what it raised or returned
    isbn_v,       \* SpecIsbn: the value given to the isbn field
    isbn_r,       \* SpecIsbn: what validating isbn_v gave
    isbn_n,       \* SpecIsbn: characters replaced / separators inserted so far
    slug_v,       \* SpecSlug: the value given to the slug field
    slug_r,       \* SpecSlug: what validating slug_v gave
    calc,         \* SpecAge: an Author's dates, today's date and get_age()
    inflight,     \* SpecConc: per request, where it is and what it loaded
    db,           \* SpecDb: config/database.py's client and the process phase
    social_media, \* SpecSocial: the mapping given to Author.social_media
    keywords,     \* SpecKeywords: a Category's keywords list
    lists         \* SpecLists: an Author's genres and awards lists

vars == <<books, authors, categories, nextId, clock, resp,
          isbn_v, isbn_r, isbn_n, slug_v, slug_r, calc, inflight,
          db, social_media, keywords, lists>>

storeVars == <<books, authors, categories, nextId, clock, resp>>
isbnVars  == <<isbn_v, isbn_r, isbn_n>>
slugVars  == <<slug_v, slug_r>>
calcVars  == <<calc, db, social_media, keywords, lists>>
concVars  == <<inflight>>

(***************************************************************************)
(* Characters                                                              *)
(***************************************************************************)
Digit == {"0", "1", "2", "3", "4", "5", "6", "7", "8", "9"}

\* int(char) for a single character; defined on Digit, ValueError elsewhere
CharInt(c) ==
    CASE c = "0" -> 0 [] c = "1" -> 1 [] c = "2" -> 2 [] c = "3" -> 3
      [] c = "4" -> 4 [] c = "5" -> 5 [] c = "6" -> 6 [] c = "7" -> 7
      [] c = "8" -> 8 [] c = "9" -> 9

\* str.replace(ch, '') : drop every occurrence of ch
RECURSIVE Remove(_, _)
Remove(s, ch) ==
    IF s = <<>> THEN <<>>
    ELSE IF Head(s) = ch THEN Remove(Tail(s), ch)
         ELSE <<Head(s)>> \o Remove(Tail(s), ch)

(***************************************************************************)
(* Book.isbn : pattern, validator, check digits   (models/book.py)         *)
(***************************************************************************)

\* regex ^(?:\d{9}[\dX]|\d{13})$ of the isbn field
IsbnRegex(v) ==
    \/ /\ Len(v) = 10
       /\ \A i \in 1..9 : v[i] \in Digit
       /\ v[10] \in Digit \cup {"X"}
    \/ /\ Len(v) = 13
       /\ \A i \in 1..13 : v[i] \in Digit

\* sum((i + 1) * (int(char) if char != 'X' else 10)) % 11 == 0 ;
\* a character int() cannot read raises ValueError, caught: False
RECURSIVE Isbn10Sum(_, _)
Isbn10Sum(isbn, i) ==
    IF i > Len(isbn) THEN 0
    ELSE i * (IF isbn[i] # "X" THEN CharInt(isbn[i]) ELSE 10)
         + Isbn10Sum(isbn, i + 1)

validate_isbn10(isbn) ==
    IF \E i \in 1..Len(isbn) : isbn[i] \notin Digit \cup {"X"}
    THEN FALSE
    ELSE Isbn10Sum(isbn, 1) % 11 = 0

Isbn13WeightSwapped(i) == IF i % 2 = 0 THEN 3 ELSE 1

\* weight of the character at 0-based position i: 1 if i % 2 == 0 else 3
Isbn13Weight(i) == IF i % 2 = 0 THEN 1 ELSE 3

\* sum(int(char) * weight(i) for i, char in enumerate(isbn[:-1]))
RECURSIVE Isbn13Sum(_, _)
Isbn13Sum(body, i) ==
    IF i > Len(body) THEN 0
    ELSE CharInt(body[i]) * Isbn13Weight(i - 1) + Isbn13Sum(body, i + 1)

\* (10 - (check_sum % 10)) % 10 == int(isbn[-1]) ; ValueError -> False
validate_isbn13(isbn) ==
    IF \E i \in 1..Len(isbn) : isbn[i] \notin Digit
    THEN FALSE
    ELSE (10 - (Isbn13Sum(SubSeq(isbn, 1, Len(isbn) - 1), 1) % 10)) % 10
             = CharInt(isbn[Len(isbn)])

\* the @validator('isbn') body: strip, dispatch on length, return stripped
validate_isbn(v) ==
    LET isbn == Remove(Remove(v, "-"), " ")
    IN  IF Len(isbn) = 10
        THEN IF validate_isbn10(isbn)
             THEN [ok |-> TRUE, value |-> isbn]
             ELSE [ok |-> FALSE, value |-> <<>>]
        ELSE IF Len(isbn) = 13
        THEN IF validate_isbn13(isbn)
             THEN [ok |-> TRUE, value |-> isbn]
             ELSE [ok |-> FALSE, value |-> <<>>]
        ELSE [ok |-> FALSE, value |-> <<>>]

\* Validation of the isbn field of the Book document: the field's pattern
\* constraint is checked first, the validator runs on what passed it.
BookIsbnField(v) ==
    IF ~IsbnRegex(v) THEN [ok |-> FALSE, value |-> <<>>]
    ELSE validate_isbn(v)

(***************************************************************************)
(* SpecIsbn : values handed to the isbn field                              *)
(***************************************************************************)
MaxIsbnEdits  == 1     \* characters replaced (or dropped) in a base ISBN
MaxSeparators == 2     \* hyphens / spaces inserted in a base ISBN

Str13Gatsby == <<"9","7","8","0","7","4","3","2","7","3","5","6","5">>
Str13Bad    == <<"9","7","8","0","7","4","3","2","7","3","5","6","4">>
Str10Gatsby == <<"0","7","4","3","2","7","3","5","6","7">>
Str10X      == <<"0","8","0","4","4","2","9","5","7","X">>

IsbnBases == {Str13Gatsby, Str13Bad, Str10Gatsby, Str10X}
IsbnChars == Digit \cup {"X"}
Separators == {"-", " "}

\* what the three routines give for the value v
IsbnOutcome(v) ==
    [field     |-> BookIsbnField(v),
     validator |-> validate_isbn(v),
     isbn13    |-> IF Len(v) = 13 THEN validate_isbn13(v) ELSE FALSE]

InitIsbn ==
    /\ isbn_v \in IsbnBases
    /\ isbn_r = IsbnOutcome(isbn_v)
    /\ isbn_n = [edits |-> 0, seps |-> 0]

\* validate the value with the character at position i replaced by c
IsbnReplaceChar(i, c) ==
    /\ isbn_n.seps = 0
    /\ isbn_n.edits < MaxIsbnEdits
    /\ i \in 1..Len(isbn_v)
    /\ c # isbn_v[i]
    /\ isbn_v' = [isbn_v EXCEPT ![i] = c]
    /\ isbn_r' = IsbnOutcome(isbn_v')
    /\ isbn_n' = [isbn_n EXCEPT !.edits = @ + 1]

\* validate the value with its last character dropped
IsbnDropLast ==
    /\ isbn_n.seps = 0
    /\ isbn_n.edits < MaxIsbnEdits
    /\ isbn_v' = SubSeq(isbn_v, 1, Len(isbn_v) - 1)
    /\ isbn_r' = IsbnOutcome(isbn_v')
    /\ isbn_n' = [isbn_n EXCEPT !.edits = @ + 1]

\* validate the value with the separator c inserted after position i
IsbnInsertSeparator(i, c) ==
    /\ isbn_n.edits = 0
    /\ isbn_n.seps < MaxSeparators
    /\ i \in 0..Len(isbn_v)
    /\ isbn_v' = SubSeq(isbn_v, 1, i) \o <<c>> \o SubSeq(isbn_v, i + 1, Len(isbn_v))
    /\ isbn_r' = IsbnOutcome(isbn_v')
    /\ isbn_n' = [isbn_n EXCEPT !.seps = @ + 1]

(***************************************************************************)
(* Category.slug : pattern and validator                                   *)
(*   (schemas/category_schema.py, models/category.py)                      *)
(***************************************************************************)
UpperLetters == <<"A","B","C","D","E","F","G","H","I","J","K","L","M",
                  "N","O","P","Q","R","S","T","U","V","W","X","Y","Z">>
LowerLetters == <<"a","b","c","d","e","f","g","h","i","j","k","l","m",
                  "n","o","p","q","r","s","t","u","v","w","x","y","z">>

SlugSafe == {LowerLetters[i] : i \in 1..26} \cup Digit \cup {"-"}

\* str.lower() on one character
LowerChar(c) ==
    IF \E i \in 1..26 : UpperLetters[i] = c
    THEN LowerLetters[CHOOSE i \in 1..26 : UpperLetters[i] = c]
    ELSE c

\* v.lower().replace(' ', '-')
LowerAndHyphenate(v) ==
    [i \in 1..Len(v) |-> IF LowerChar(v[i]) = " " THEN "-" ELSE LowerChar(v[i])]

\* re.sub(r'[^a-z0-9-]', '', slug)
RECURSIVE KeepSlugSafe(_)
KeepSlugSafe(s) ==
    IF s = <<>> THEN <<>>
    ELSE IF Head(s) \in SlugSafe THEN <<Head(s)>> \o KeepSlugSafe(Tail(s))
         ELSE KeepSlugSafe(Tail(s))

\* re.sub(r'-+', '-', slug)
RECURSIVE CollapseHyphens(_)
CollapseHyphens(s) ==
    IF Len(s) < 2 THEN s
    ELSE IF Head(s) = "-" /\ s[2] = "-" THEN CollapseHyphens(Tail(s))
         ELSE <<Head(s)>> \o CollapseHyphens(Tail(s))

\* slug.strip('-')  (StripLeadingHyphens is the mutation lstrip('-'))
RECURSIVE StripLeadingHyphens(_)
StripLeadingHyphens(s) ==
    IF s = <<>> THEN s
    ELSE IF Head(s) = "-" THEN StripLeadingHyphens(Tail(s))
    ELSE s
RECURSIVE StripHyphens(_)
StripHyphens(s) ==
    IF s = <<>> THEN s
    ELSE IF Head(s) = "-" THEN StripHyphens(Tail(s))
    ELSE IF s[Len(s)] = "-" THEN StripHyphens(SubSeq(s, 1, Len(s) - 1))
    ELSE s

\* the @validator('slug') body
validate_slug(v) ==
    IF v = <<>> THEN [ok |-> FALSE, value |-> <<>>]
    ELSE LET slug == StripHyphens(CollapseHyphens(KeepSlugSafe(LowerAndHyphenate(v))))
         IN  IF slug = <<>> THEN [ok |-> FALSE, value |-> <<>>]
             ELSE [ok |-> TRUE, value |-> slug]

\* regex ^[a-z0-9-]+$ of the slug field
SlugRegex(v) == v # <<>> /\ \A i \in 1..Len(v) : v[i] \in SlugSafe

\* Validation of the slug field of CategoryCreate and of the Category
\* document: the pattern constraint first, the validator on what passed it.
CategorySlugField(v) ==
    IF ~SlugRegex(v) THEN [ok |-> FALSE, value |-> <<>>]
    ELSE validate_slug(v)

(***************************************************************************)
(* SpecSlug : values handed to the slug field                              *)
(***************************************************************************)
MaxSlugLen == 3        \* length of the slugs built character by character

StrScienceFiction == <<"S","c","i","e","n","c","e"," ",
                       "F","i","c","t","i","o","n","!","!">>
StrScienceFictionSlug == <<"s","c","i","e","n","c","e","-",
                           "f","i","c","t","i","o","n">>
StrHyphens == <<"-","-","-">>

SlugAlphabet == {"a", "S", "1", "-", " ", "!"}

SlugOutcome(v) ==
    [field     |-> CategorySlugField(v),
     validator |-> validate_slug(v)]

SlugExamples == {StrScienceFiction, StrScienceFictionSlug}

InitSlug ==
    /\ slug_v = <<>>
    /\ slug_r = SlugOutcome(slug_v)

\* validate one of the longer example values
SlugGive(v) ==
    /\ slug_v = <<>>
    /\ slug_v' = v
    /\ slug_r' = SlugOutcome(slug_v')

\* validate the value with the character c appended
SlugAppend(c) ==
    /\ Len(slug_v) < MaxSlugLen
    /\ slug_v' = Append(slug_v, c)
    /\ slug_r' = SlugOutcome(slug_v')

(***************************************************************************)
(* Spec : the document store and the service requests                      *)
(*                                                                         *)
(* A collection is a function from the identifiers it stores to documents. *)
(* Identifiers are 1..MaxIds per collection; BadId is a string that is not *)
(* a well-formed ObjectId.  An Optional value is a sequence: <<>> is None, *)
(* <<x>> is the value x.  Dates are day numbers.  Of the fields that the   *)
(* services only copy, each entity keeps the ones marked below; the others *)
(* (description, pages, tags, biography, color, ...) are copied alike.     *)
(***************************************************************************)
MaxIds      == 3       \* well-formed identifiers per collection
MaxClock    == 1       \* requests served in one behaviour
MaxCopies   == 6       \* largest available_copies / total_copies supplied
MaxDate     == 2       \* latest day a date input names
MaxSupplied == 2       \* fields supplied in one update payload

Ids   == 1..MaxIds
BadId == 0
IdInputs == Ids \cup {BadId}

None == <<>>
Some(x) == <<x>>

\* date.today()
Today == 1

\* ObjectId.is_valid(v)
ObjectIdIsValid(id) == id \in Ids

BookFields     == {"title", "isbn", "author_id", "category_id",
                   "available_copies", "total_copies"}
AuthorFields   == {"name", "birth_date", "death_date"}
CategoryFields == {"name", "parent_id", "slug"}

\* declaration order of the fields, in BookBase / BookUpdate and in Book
BookFieldOrder == <<"title", "isbn", "author_id", "category_id",
                    "available_copies", "total_copies">>
\* declaration order in AuthorBase and in Author
AuthorFieldOrder == <<"name", "birth_date", "death_date">>

\* the names a validator of field f finds in `values`: the fields declared
\* before f
ValuesBefore(order, f) ==
    {order[i] : i \in {j \in 1..Len(order) : \A k \in 1..j : order[k] # f}}

(***************************************************************************)
(* Request schemas  (schemas/*.py)                                         *)
(* A payload p is [set |-> the fields supplied, val |-> their values];     *)
(* val holds the field's default where the field is not supplied.          *)
(***************************************************************************)
TitleOk(t) == t # None /\ Len(t[1]) >= 1 /\ Len(t[1]) <= 200
NameOk(n, lo, hi) == Len(n) >= lo /\ Len(n) <= hi

\* BookCreate.validate_available_copies
BookCreate_validate_available_copies(v, p) ==
    LET total_copies == IF "total_copies" \in ValuesBefore(BookFieldOrder, "available_copies")
                        THEN p.val.total_copies ELSE 1
    IN  ~(v > total_copies)

\* BookUpdate.validate_available_copies : values.get('total_copies') is None
\* unless total_copies was validated before available_copies
BookUpdate_validate_available_copies(v, p) ==
    LET known == "total_copies" \in p.set
                 /\ "total_copies" \in ValuesBefore(BookFieldOrder, "available_copies")
    IN  ~(known /\ v > p.val.total_copies)

\* BookBase field constraints + the BookCreate validator
BookCreateValid(p) ==
    /\ {"title", "isbn", "author_id", "category_id"} \subseteq p.set
    /\ TitleOk(p.val.title)
    /\ IsbnRegex(p.val.isbn)
    /\ ObjectIdIsValid(p.val.author_id)
    /\ ObjectIdIsValid(p.val.category_id)
    /\ p.val.available_copies >= 0
    /\ p.val.total_copies >= 1
    /\ "available_copies" \in p.set
          => BookCreate_validate_available_copies(p.val.available_copies, p)

\* BookUpdate field constraints + the BookUpdate validator ; title is
\* Optional[str]: the length constraints bear on a string, an explicit null
\* passes
BookUpdateValid(p) ==
    /\ "title" \in p.set => (p.val.title = None \/ TitleOk(p.val.title))
    /\ "isbn" \in p.set => IsbnRegex(p.val.isbn)
    /\ "author_id" \in p.set => ObjectIdIsValid(p.val.author_id)
    /\ "category_id" \in p.set => ObjectIdIsValid(p.val.category_id)
    /\ "available_copies" \in p.set => p.val.available_copies >= 0
    /\ "total_copies" \in p.set => p.val.total_copies >= 1
    /\ "available_copies" \in p.set
          => BookUpdate_validate_available_copies(p.val.available_copies, p)

\* validate_birth_date (AuthorCreate and Author)
validate_birth_date(v) == ~(v # None /\ v[1] > Today)

\* validate_death_date (AuthorCreate and Author): birth_date comes from
\* `values`, the fields declared before death_date
validate_death_date(v, p) ==
    LET birth_date == IF "birth_date" \in ValuesBefore(AuthorFieldOrder, "death_date")
                      THEN p.val.birth_date ELSE None
    IN  ~(v # None /\ birth_date # None /\ v[1] <= birth_date[1])

\* AuthorBase field constraints + the AuthorCreate validators
AuthorCreateValid(p) ==
    /\ "name" \in p.set
    /\ NameOk(p.val.name, 2, 100)
    /\ validate_birth_date(p.val.birth_date)
    /\ validate_death_date(p.val.death_date, p)

\* AuthorUpdate : field constraints only, the schema declares no validator
AuthorUpdateValid(p) ==
    "name" \in p.set => NameOk(p.val.name, 2, 100)

\* CategoryBase field constraints + CategoryCreate.validate_slug
CategoryCreateValid(p) ==
    /\ {"name", "slug"} \subseteq p.set
    /\ NameOk(p.val.name, 2, 50)
    /\ CategorySlugField(p.val.slug).ok

\* CategoryUpdate : field constraints only, the schema declares no validator
CategoryUpdateValid(p) ==
    /\ "name" \in p.set => NameOk(p.val.name, 2, 50)
    /\ "slug" \in p.set => SlugRegex(p.val.slug)

(***************************************************************************)
(* Request inputs                                                          *)
(***************************************************************************)
SmallSubsets(F) == {S \in SUBSET F : Cardinality(S) <= MaxSupplied}
OneField(F) == {{f} : f \in F}
Pick(S, f, inputs, default) == IF f \in S THEN inputs ELSE {default}

TitleInputs  == {Some("New"), Some(""), None}
IsbnInputs   == {Str10Gatsby, Str13Bad}
CopiesInputs == {0, 3, MaxCopies - 1, MaxCopies}
NameInputs   == {"Zelda", "Z"}
DateInputs   == {None} \cup {Some(d) : d \in 1..MaxDate}
SlugInputs   == {<<"b">>, <<"S">>, StrHyphens}
ParentInputs == {None} \cup {Some(i) : i \in IdInputs}

BookPayloads(subsets) ==
    UNION { { [set |-> S,
               val |-> [title |-> t, isbn |-> i, author_id |-> a,
                        category_id |-> c, available_copies |-> av,
                        total_copies |-> tc]] :
                t  \in Pick(S, "title", TitleInputs, Some("New")),
                i  \in Pick(S, "isbn", IsbnInputs, Str13Gatsby),
                a  \in Pick(S, "author_id", IdInputs, 1),
                c  \in Pick(S, "category_id", IdInputs, 1),
                av \in Pick(S, "available_copies", CopiesInputs, 1),
                tc \in Pick(S, "total_copies", CopiesInputs, 1) } :
            S \in subsets }

AuthorPayloads(subsets) ==
    UNION { { [set |-> S,
               val |-> [name |-> n, birth_date |-> b, death_date |-> d]] :
                n \in Pick(S, "name", NameInputs, "Zelda"),
                b \in Pick(S, "birth_date", DateInputs, None),
                d \in Pick(S, "death_date", DateInputs, None) } :
            S \in subsets }

CategoryPayloads(subsets) ==
    UNION { { [set |-> S,
               val |-> [name |-> n, parent_id |-> q, slug |-> g]] :
                n \in Pick(S, "name", NameInputs, "Zelda"),
                q \in Pick(S, "parent_id", ParentInputs, None),
                g \in Pick(S, "slug", SlugInputs, <<"a">>) } :
            S \in subsets }

\* update payloads: any few fields; create payloads: the required fields
\* and any of the optional ones
BookUpdatePayloads     == BookPayloads(SmallSubsets(BookFields))
AuthorUpdatePayloads   == AuthorPayloads(SmallSubsets(AuthorFields))
CategoryUpdatePayloads == CategoryPayloads(SmallSubsets(CategoryFields))
BookCreatePayloads ==
    BookPayloads({S \in SUBSET BookFields :
                    {"title", "isbn", "author_id", "category_id"} \subseteq S})
AuthorCreatePayloads ==
    AuthorPayloads({S \in SUBSET AuthorFields : "name" \in S})
CategoryCreatePayloads ==
    CategoryPayloads({S \in SUBSET CategoryFields : {"name", "slug"} \subseteq S})

(***************************************************************************)
(* The store at start-up: the collections of the database the service      *)
(* connects to, either empty or holding documents written earlier, each of *)
(* which satisfies its document model.                                     *)
(***************************************************************************)
SeedAuthors ==
    (1 :> [name |-> "Fitzgerald", birth_date |-> Some(1), death_date |-> None,
           created_at |-> 0, updated_at |-> 0]) @@
    (2 :> [name |-> "Hemingway", birth_date |-> None, death_date |-> Some(1),
           created_at |-> 0, updated_at |-> 0])
SeedCategories ==
    (1 :> [name |-> "Fiction", parent_id |-> None, slug |-> <<"a">>,
           created_at |-> 0, updated_at |-> 0]) @@
    (2 :> [name |-> "Classics", parent_id |-> Some(1), slug |-> <<"1">>,
           created_at |-> 0, updated_at |-> 0])
SeedBooks ==
    (1 :> [title |-> Some("Gatsby"), isbn |-> Str13Gatsby, author_id |-> 1,
           category_id |-> 1, available_copies |-> 1, total_copies |-> 1,
           created_at |-> 0, updated_at |-> 0]) @@
    (2 :> [title |-> Some("Tender"), isbn |-> Str10Gatsby, author_id |-> 1,
           category_id |-> 2, available_copies |-> 0, total_copies |-> 1,
           created_at |-> 0, updated_at |-> 0])

InitStore ==
    /\ clock = 0
    /\ resp = [op |-> "start", id |-> BadId, outcome |-> "ok"]
    /\ \/ /\ books = <<>> /\ authors = <<>> /\ categories = <<>>
          /\ nextId = [book |-> 1, author |-> 1, category |-> 1]
       \/ /\ books = SeedBooks /\ authors = SeedAuthors
          /\ categories = SeedCategories
          /\ nextId = [book |-> 3, author |-> 3, category |-> 3]

(***************************************************************************)
(* Service operations  (services/impl/*.py), each taken together with the  *)
(* validation of its request body by the request schema, which is done     *)
(* before the service is called.                                           *)
(***************************************************************************)
\* datetime.utcnow() while the request is served: requests are served one
\* after the other, each at a later tick than the one before
Now == clock + 1
Tick == clock < MaxClock /\ clock' = Now

Reply(op, id, outcome) == [op |-> op, id |-> id, outcome |-> outcome]

\* try: Document.get(ObjectId(id)) except Exception: None
get_by_id(coll, id) ==
    IF ObjectIdIsValid(id) /\ id \in DOMAIN coll THEN Some(coll[id]) ELSE None
get_book_by_id(id)     == get_by_id(books, id)
get_author_by_id(id)   == get_by_id(authors, id)
get_category_by_id(id) == get_by_id(categories, id)

\* a get_*_by_id request: the document, or None when ObjectId(id) or
\* Document.get raised (raised: the store failed) or nothing is stored under
\* id.  (get_request_uncaught is the mutation with ObjectId(id) outside the
\* try.)
get_request_uncaught(op, coll, id, raised) ==
    /\ resp' = Reply(op, id, IF ~ObjectIdIsValid(id) THEN "InvalidId"
                              ELSE IF raised \/ get_by_id(coll, id) = None
                              THEN "None" ELSE "ok")
    /\ UNCHANGED <<books, authors, categories, nextId>>
get_request(op, coll, id, raised) ==
    /\ resp' = Reply(op, id, IF raised \/ get_by_id(coll, id) = None
                              THEN "None" ELSE "ok")
    /\ UNCHANGED <<books, authors, categories, nextId>>

\* CategoryService.get_category_tree, which CategoryServiceImpl does not
\* define: the stored categories grouped on parent_id, the categories with
\* no parent_id as roots at depth 0, under each node the categories whose
\* parent_id names it, one deeper
RECURSIVE TreeNode(_, _, _)
TreeNode(coll, c, depth) ==
    [category |-> c, depth |-> depth,
     children |-> {TreeNode(coll, k, depth + 1) :
                     k \in {i \in DOMAIN coll : coll[i].parent_id = Some(c)}}]
get_category_tree(coll) ==
    {TreeNode(coll, r, 0) : r \in {i \in DOMAIN coll : coll[i].parent_id = None}}

get_tree_request ==
    /\ resp' = Reply("get_category_tree", BadId, "ok")
    /\ UNCHANGED <<books, authors, categories, nextId>>

\* document.insert() / document.delete()
Insert(coll, id, doc) == [i \in DOMAIN coll \cup {id} |-> IF i = id THEN doc ELSE coll[i]]
Delete(coll, id) == [i \in DOMAIN coll \ {id} |-> coll[i]]

\* (SetAttrsDumpAll is the mutation that dumps the unset fields too)
\* for field, value in update_data.items(): setattr(doc, field, value)
\* with update_data = model_dump(exclude_unset=True) + updated_at ;
\* then document.save()
SetAttrsDumpAll(doc, p, now) ==
    [f \in DOMAIN doc |->
        IF f \in DOMAIN p.val THEN p.val[f]
        ELSE IF f = "updated_at" THEN now
        ELSE doc[f]]
SetAttrs(doc, p, now) ==
    [f \in DOMAIN doc |->
        IF f \in p.set THEN p.val[f]
        ELSE IF f = "updated_at" THEN now
        ELSE doc[f]]
Save(coll, id, doc) == [coll EXCEPT ![id] = doc]

\* attributes of a BookCreate object, and the ones create_book reads
BookCreateAttrs ==
    BookFields \cup {"description", "publication_date", "pages", "language",
                     "publisher", "tags"}
BookCreateReads ==
    {"title", "isbn", "published_date", "available", "author_id", "category_id"}

\* Book.validate_available_copies, run when the document is constructed
Book_validate_available_copies(v, doc) ==
    LET total_copies == IF "total_copies" \in ValuesBefore(BookFieldOrder, "available_copies")
                        THEN doc.total_copies ELSE 1
    IN  ~(v > total_copies)

create_book(p) ==
    /\ UNCHANGED <<authors, categories>>
    /\ IF ~BookCreateValid(p)
       THEN /\ resp' = Reply("create_book", BadId, "RequestValidationError")
            /\ UNCHANGED <<books, nextId>>
       ELSE IF ~(BookCreateReads \subseteq BookCreateAttrs)
       THEN /\ resp' = Reply("create_book", BadId, "AttributeError")
            /\ UNCHANGED <<books, nextId>>
       ELSE LET isbn == BookIsbnField(p.val.isbn)
                doc  == [title |-> p.val.title, isbn |-> isbn.value,
                         author_id |-> p.val.author_id,
                         category_id |-> p.val.category_id,
                         available_copies |-> 1, total_copies |-> 1,
                         created_at |-> Now, updated_at |-> Now]
            IN  IF ~isbn.ok \/ ~Book_validate_available_copies(1, doc)
                THEN /\ resp' = Reply("create_book", BadId, "ValidationError")
                     /\ UNCHANGED <<books, nextId>>
                ELSE /\ nextId.book <= MaxIds
                     /\ books' = Insert(books, nextId.book, doc)
                     /\ nextId' = [nextId EXCEPT !.book = @ + 1]
                     /\ resp' = Reply("create_book", nextId.book, "ok")

\* (update_book_always_saves is the mutation without the `if update_data`
\* test)
update_book_always_saves(id, p) ==
    /\ UNCHANGED <<authors, categories, nextId>>
    /\ IF ~BookUpdateValid(p)
       THEN /\ resp' = Reply("update_book", id, "RequestValidationError")
            /\ UNCHANGED books
       ELSE IF get_book_by_id(id) = None
       THEN /\ resp' = Reply("update_book", id, "BookNotFoundException")
            /\ UNCHANGED books
       ELSE /\ books' = Save(books, id, SetAttrs(get_book_by_id(id)[1], p, Now))
            /\ resp' = Reply("update_book", id, "ok")

update_book(id, p) ==
    /\ UNCHANGED <<authors, categories, nextId>>
    /\ IF ~BookUpdateValid(p)
       THEN /\ resp' = Reply("update_book", id, "RequestValidationError")
            /\ UNCHANGED books
       ELSE IF get_book_by_id(id) = None
       THEN /\ resp' = Reply("update_book", id, "BookNotFoundException")
            /\ UNCHANGED books
       ELSE IF p.set = {}
       THEN /\ resp' = Reply("update_book", id, "ok")
            /\ UNCHANGED books
       ELSE /\ books' = Save(books, id, SetAttrs(get_book_by_id(id)[1], p, Now))
            /\ resp' = Reply("update_book", id, "ok")

\* (delete_book_idempotent is the mutation that answers True for an absent
\* book)
delete_book_idempotent(id) ==
    /\ UNCHANGED <<authors, categories, nextId>>
    /\ IF get_book_by_id(id) = None
       THEN /\ resp' = Reply("delete_book", id, "ok")
            /\ UNCHANGED books
       ELSE /\ books' = Delete(books, id)
            /\ resp' = Reply("delete_book", id, "ok")

delete_book(id) ==
    /\ UNCHANGED <<authors, categories, nextId>>
    /\ IF get_book_by_id(id) = None
       THEN /\ resp' = Reply("delete_book", id, "BookNotFoundException")
            /\ UNCHANGED books
       ELSE /\ books' = Delete(books, id)
            /\ resp' = Reply("delete_book", id, "ok")

\* the fields create_author hands to Author(...); the others take the
\* document model's defaults
AuthorCreateCopies == {"name", "biography", "birth_date"}

create_author(p) ==
    /\ UNCHANGED <<books, categories>>
    /\ IF ~AuthorCreateValid(p)
       THEN /\ resp' = Reply("create_author", BadId, "RequestValidationError")
            /\ UNCHANGED <<authors, nextId>>
       ELSE LET doc == [name |-> p.val.name,
                        birth_date |-> IF "birth_date" \in AuthorCreateCopies
                                       THEN p.val.birth_date ELSE None,
                        death_date |-> IF "death_date" \in AuthorCreateCopies
                                       THEN p.val.death_date ELSE None,
                        created_at |-> Now, updated_at |-> Now]
            IN  /\ nextId.author <= MaxIds
                /\ authors' = Insert(authors, nextId.author, doc)
                /\ nextId' = [nextId EXCEPT !.author = @ + 1]
                /\ resp' = Reply("create_author", nextId.author, "ok")

update_author(id, p) ==
    /\ UNCHANGED <<books, categories, nextId>>
    /\ IF ~AuthorUpdateValid(p)
       THEN /\ resp' = Reply("update_author", id, "RequestValidationError")
            /\ UNCHANGED authors
       ELSE IF get_author_by_id(id) = None
       THEN /\ resp' = Reply("update_author", id, "LibraryException")
            /\ UNCHANGED authors
       ELSE IF p.set = {}
       THEN /\ resp' = Reply("update_author", id, "ok")
            /\ UNCHANGED authors
       ELSE /\ authors' = Save(authors, id, SetAttrs(get_author_by_id(id)[1], p, Now))
            /\ resp' = Reply("update_author", id, "ok")

delete_author(id) ==
    /\ UNCHANGED <<books, categories, nextId>>
    /\ IF get_author_by_id(id) = None
       THEN /\ resp' = Reply("delete_author", id, "LibraryException")
            /\ UNCHANGED authors
       ELSE /\ authors' = Delete(authors, id)
            /\ resp' = Reply("delete_author", id, "ok")

\* the keyword arguments create_category hands to Category(...), and the
\* fields of Category declared required (Field(...))
CategoryCreatePasses == {"name", "description", "created_at", "updated_at"}
CategoryRequired     == {"name", "slug"}

create_category(p) ==
    /\ UNCHANGED <<books, authors>>
    /\ IF ~CategoryCreateValid(p)
       THEN /\ resp' = Reply("create_category", BadId, "RequestValidationError")
            /\ UNCHANGED <<categories, nextId>>
       ELSE IF ~(CategoryRequired \subseteq CategoryCreatePasses)
       THEN /\ resp' = Reply("create_category", BadId, "ValidationError")
            /\ UNCHANGED <<categories, nextId>>
       ELSE /\ nextId.category <= MaxIds
            /\ categories' = Insert(categories, nextId.category,
                                    [name |-> p.val.name, parent_id |-> None,
                                     slug |-> CategorySlugField(p.val.slug).value,
                                     created_at |-> Now,
                                     updated_at |-> Now])
            /\ nextId' = [nextId EXCEPT !.category = @ + 1]
            /\ resp' = Reply("create_category", nextId.category, "ok")

update_category(id, p) ==
    /\ UNCHANGED <<books, authors, nextId>>
    /\ IF ~CategoryUpdateValid(p)
       THEN /\ resp' = Reply("update_category", id, "RequestValidationError")
            /\ UNCHANGED categories
       ELSE IF get_category_by_id(id) = None
       THEN /\ resp' = Reply("update_category", id, "LibraryException")
            /\ UNCHANGED categories
       ELSE IF p.set = {}
       THEN /\ resp' = Reply("update_category", id, "ok")
            /\ UNCHANGED categories
       ELSE /\ categories' = Save(categories, id,
                                  SetAttrs(get_category_by_id(id)[1], p, Now))
            /\ resp' = Reply("update_category", id, "ok")

delete_category(id) ==
    /\ UNCHANGED <<books, authors, nextId>>
    /\ IF get_category_by_id(id) = None
       THEN /\ resp' = Reply("delete_category", id, "LibraryException")
            /\ UNCHANGED categories
       ELSE /\ categories' = Delete(categories, id)
            /\ resp' = Reply("delete_category", id, "ok")

(***************************************************************************)
(* update_book / update_author served concurrently.  A request runs from   *)
(* one await to the next without interruption: `await get_*_by_id` reads   *)
(* the stored document into the request's own object; the attributes are   *)
(* set on that object and `await document.save()` writes the object, every *)
(* field of it, to the store.  Requests whose body the schema refuses or   *)
(* that supply nothing never save and are left out.                        *)
(***************************************************************************)
MaxRequests == 2
Requests == 1..MaxRequests

NoRequest == [pc |-> "idle", op |-> "none", id |-> BadId,
              p |-> [set |-> {}, val |-> <<>>], doc |-> None]

\* book = await self.get_book_by_id(book_id); if not book: raise ...
update_load(r, op, coll, notFound, id, p) ==
    /\ inflight[r].pc = "idle"
    /\ p.set # {}
    /\ inflight' = [inflight EXCEPT ![r] =
                       [pc |-> IF get_by_id(coll, id) = None THEN "done" ELSE "loaded",
                        op |-> op, id |-> id, p |-> p, doc |-> get_by_id(coll, id)]]
    /\ resp' = IF get_by_id(coll, id) = None THEN Reply(op, id, notFound) ELSE resp
    /\ UNCHANGED <<books, authors, categories, nextId, clock>>

\* setattr(...) on the loaded object; await book.save()
\* (save() writes the document whether or not one is stored under the id)
SaveDocument(coll, id, doc) == Insert(coll, id, doc)

update_book_save(r) ==
    /\ inflight[r].pc = "loaded" /\ inflight[r].op = "update_book"
    /\ books' = SaveDocument(books, inflight[r].id,
                              SetAttrs(inflight[r].doc[1], inflight[r].p, Now))
    /\ inflight' = [inflight EXCEPT ![r].pc = "done"]
    /\ resp' = Reply("update_book", inflight[r].id, "ok")
    /\ UNCHANGED <<authors, categories, nextId>>

update_author_save(r) ==
    /\ inflight[r].pc = "loaded" /\ inflight[r].op = "update_author"
    /\ authors' = SaveDocument(authors, inflight[r].id,
                                SetAttrs(inflight[r].doc[1], inflight[r].p, Now))
    /\ inflight' = [inflight EXCEPT ![r].pc = "done"]
    /\ resp' = Reply("update_author", inflight[r].id, "ok")
    /\ UNCHANGED <<books, categories, nextId>>

(***************************************************************************)
(* Controllers  (controllers/*.py): the status that answers a request,     *)
(* from what the service returned or raised.  A body the request schema    *)
(* refuses never reaches the controller and is answered 422.  get_*: None  *)
(* raises HTTPException(404).  Every controller catches ValueError (which  *)
(* the document model's ValidationError is) as 400 and then Exception,     *)
(* which BookNotFoundException and LibraryException are, as 500.           *)
(***************************************************************************)
GetOps    == {"get_book_by_id", "get_author_by_id", "get_category_by_id"}
CreateOps == {"create_book", "create_author", "create_category"}
UpdateOps == {"update_book", "update_author", "update_category"}
DeleteOps == {"delete_book", "delete_author", "delete_category"}

http_status(op, outcome) ==
    IF outcome = "RequestValidationError" THEN 422
    ELSE IF op \in GetOps THEN (IF outcome = "None" THEN 404 ELSE 200)
    ELSE IF outcome = "ok"
         THEN (IF op \in CreateOps THEN 201 ELSE IF op \in DeleteOps THEN 204 ELSE 200)
    ELSE IF outcome = "ValidationError" THEN 400
    ELSE 500

(***************************************************************************)
(* Author.get_age  (models/author.py).  A date is [year, month, day].      *)
(***************************************************************************)
Date(y, m, d) == [year |-> y, month |-> m, day |-> d]

\* the birthday of the year of end_date is still to come (the mutation
\* counts the birthday itself as still to come)
BirthdayNotReachedOrToday(end_date, birth_date) ==
    \/ end_date.month < birth_date.month
    \/ end_date.month = birth_date.month /\ end_date.day <= birth_date.day
BirthdayNotReached(end_date, birth_date) ==
    \/ end_date.month < birth_date.month
    \/ end_date.month = birth_date.month /\ end_date.day < birth_date.day

\* Author.get_age ; dates are always truthy, so `not self.birth_date` is
\* `birth_date is None` and `death_date or date.today()` takes today only
\* when death_date is None
get_age(self, today) ==
    IF self.birth_date = None THEN None
    ELSE LET end_date == IF self.death_date # None THEN self.death_date[1] ELSE today
             age == end_date.year - self.birth_date[1].year
         IN  IF BirthdayNotReached(end_date, self.birth_date[1])
             THEN Some(age - 1) ELSE Some(age)

\* the dates tried: Fitzgerald's birth and death and their neighbours
AgeYears  == {1896, 1897, 1940}
AgeMonths == {9, 12}
AgeDays   == {21, 24}
AgeDates  == {Date(y, m, d) : y \in AgeYears, m \in AgeMonths, d \in AgeDays}
AgeBirth  == Date(1896, 9, 24)
AgeDeath  == Date(1940, 12, 21)

AgeOutcome(birth, death, today) ==
    [birth_date |-> birth, death_date |-> death, today |-> today,
     age |-> get_age([birth_date |-> birth, death_date |-> death], today)]

InitAge == \E t \in AgeDates : calc = AgeOutcome(None, None, t)

\* the author's birth_date / death_date is set or cleared and get_age() is
\* called
AgeSetBirth(b) == calc' = AgeOutcome(b, calc.death_date, calc.today)
AgeSetDeath(d) == calc' = AgeOutcome(calc.birth_date, d, calc.today)

(***************************************************************************)
(* Specifications                                                          *)
(***************************************************************************)
IsbnIdle == isbn_v = <<>> /\ isbn_r = <<>> /\ isbn_n = <<>>
SlugIdle == slug_v = <<>> /\ slug_r = <<>>
AgeIdle == calc = <<>>
DbIdle == db = <<>>
SocialIdle == social_media = <<>>
KeywordsIdle == keywords = <<>>
ListsIdle == lists = <<>>
CalcIdle == AgeIdle /\ DbIdle /\ SocialIdle /\ KeywordsIdle /\ ListsIdle
ConcIdle == inflight = <<>>
StoreIdle ==
    /\ books = <<>> /\ authors = <<>> /\ categories = <<>>
    /\ nextId = <<>> /\ clock = 0 /\ resp = <<>>

Init == InitStore /\ IsbnIdle /\ SlugIdle /\ CalcIdle /\ ConcIdle

Others == UNCHANGED <<isbnVars, slugVars, calcVars, concVars>>

CreateBook     == Tick /\ Others /\ \E p \in BookCreatePayloads : create_book(p)
UpdateBook     == Tick /\ Others /\ \E id \in IdInputs, p \in BookUpdatePayloads : update_book(id, p)
DeleteBook     == Tick /\ Others /\ \E id \in IdInputs : delete_book(id)
CreateAuthor   == Tick /\ Others /\ \E p \in AuthorCreatePayloads : create_author(p)
UpdateAuthor   == Tick /\ Others /\ \E id \in IdInputs, p \in AuthorUpdatePayloads : update_author(id, p)
DeleteAuthor   == Tick /\ Others /\ \E id \in IdInputs : delete_author(id)
CreateCategory == Tick /\ Others /\ \E p \in CategoryCreatePayloads : create_category(p)
UpdateCategory == Tick /\ Others /\ \E id \in IdInputs, p \in CategoryUpdatePayloads : update_category(id, p)
DeleteCategory == Tick /\ Others /\ \E id \in IdInputs : delete_category(id)

GetBook     == Tick /\ Others /\ \E id \in IdInputs, raised \in BOOLEAN : get_request("get_book_by_id", books, id, raised)
GetAuthor   == Tick /\ Others /\ \E id \in IdInputs, raised \in BOOLEAN : get_request("get_author_by_id", authors, id, raised)
GetCategory == Tick /\ Others /\ \E id \in IdInputs, raised \in BOOLEAN : get_request("get_category_by_id", categories, id, raised)

GetTree     == Tick /\ Others /\ get_tree_request

Next ==
    \/ GetTree
    \/ GetBook
    \/ GetAuthor
    \/ GetCategory
    \/ CreateBook
    \/ UpdateBook
    \/ DeleteBook
    \/ CreateAuthor
    \/ UpdateAuthor
    \/ DeleteAuthor
    \/ CreateCategory
    \/ UpdateCategory
    \/ DeleteCategory

Spec == Init /\ [][Next]_vars

IsbnOthers  == UNCHANGED <<storeVars, slugVars, calcVars, concVars>>
IsbnReplace == IsbnOthers /\ \E i \in 1..13, c \in IsbnChars : IsbnReplaceChar(i, c)
IsbnDrop    == IsbnOthers /\ IsbnDropLast
IsbnInsert  == IsbnOthers /\ \E i \in 0..(13 + MaxSeparators), c \in Separators : IsbnInsertSeparator(i, c)

NextIsbn ==
    \/ IsbnReplace
    \/ IsbnDrop
    \/ IsbnInsert

IsbnStart == InitIsbn /\ StoreIdle /\ SlugIdle /\ CalcIdle /\ ConcIdle

SpecIsbn == IsbnStart /\ [][NextIsbn]_vars

SlugExtend == UNCHANGED <<storeVars, isbnVars, calcVars, concVars>> /\ \E c \in SlugAlphabet : SlugAppend(c)

SlugExample == UNCHANGED <<storeVars, isbnVars, calcVars, concVars>> /\ \E v \in SlugExamples : SlugGive(v)

NextSlug ==
    \/ SlugExtend
    \/ SlugExample

SlugStart == InitSlug /\ StoreIdle /\ IsbnIdle /\ CalcIdle /\ ConcIdle

SpecSlug == SlugStart /\ [][NextSlug]_vars

(***************************************************************************)
(* Properties                                                              *)
(***************************************************************************)
StoreUnchanged == books' = books /\ authors' = authors /\ categories' = categories

\* C1: every stored Book has available_copies <= total_copies, whatever
\* creates and updates were served (an update that supplies one of the two
\* fields being checked against the stored value of the other).
C1_AvailableWithinTotal ==
    \A b \in DOMAIN books : books[b].available_copies <= books[b].total_copies

SuppliesOverstock(p) ==
    /\ {"available_copies", "total_copies"} \subseteq p.set
    /\ p.val.available_copies > p.val.total_copies

\* C2: a Book create, or an update of a stored Book, that supplies
\* available_copies > total_copies together is refused with a validation
\* error and leaves the store as it was.
C2_OverstockRefused ==
    [][ /\ \A p \in BookCreatePayloads :
              create_book(p) /\ SuppliesOverstock(p)
                 => resp'.outcome = "RequestValidationError" /\ StoreUnchanged
        /\ \A id \in DOMAIN books : \A p \in BookUpdatePayloads :
              update_book(id, p) /\ SuppliesOverstock(p)
                 => resp'.outcome = "RequestValidationError" /\ StoreUnchanged
      ]_vars

SuppliesDanglingReference(p) ==
    \/ "author_id" \in p.set /\ get_author_by_id(p.val.author_id) = None
    \/ "category_id" \in p.set /\ get_category_by_id(p.val.category_id) = None

\* C3: a Book create, or a Book update that supplies author_id or
\* category_id, fails and leaves the store unchanged when the author_id names
\* no stored Author or the category_id names no stored Category.
C3_DanglingReferenceRefused ==
    [][ /\ \A p \in BookCreatePayloads :
              create_book(p) /\ SuppliesDanglingReference(p)
                 => resp'.outcome # "ok" /\ StoreUnchanged
        /\ \A id \in DOMAIN books : \A p \in BookUpdatePayloads :
              update_book(id, p) /\ SuppliesDanglingReference(p)
                 => resp'.outcome # "ok" /\ StoreUnchanged
      ]_vars

BooksOfAuthor(id)   == {b \in DOMAIN books : books[b].author_id = id}
BooksOfCategory(id) == {b \in DOMAIN books : books[b].category_id = id}
Subcategories(id)   == {c \in DOMAIN categories : categories[c].parent_id = Some(id)}

\* C4: deleting a stored Author that some stored Book references fails with
\* HasDependents and keeps the author; deleting one that no Book references
\* succeeds and removes it.
C4_AuthorDeleteGuarded ==
    [][ \A id \in DOMAIN authors :
          delete_author(id)
             => IF BooksOfAuthor(id) # {}
                THEN resp'.outcome = "HasDependents" /\ id \in DOMAIN authors'
                ELSE resp'.outcome = "ok" /\ id \notin DOMAIN authors'
      ]_vars

\* C5: deleting a stored Category that a stored Book has as category_id, or
\* a stored Category has as parent_id, fails and keeps the category.
C5_CategoryDeleteGuarded ==
    [][ \A id \in DOMAIN categories :
          delete_category(id) /\ (BooksOfCategory(id) # {} \/ Subcategories(id) # {})
             => resp'.outcome # "ok" /\ id \in DOMAIN categories'
      ]_vars

\* C6: no two distinct stored Books have the same isbn.
C6_IsbnUnique ==
    \A b1 \in DOMAIN books : \A b2 \in DOMAIN books :
        b1 # b2 => books[b1].isbn # books[b2].isbn

\* C10: every stored Author with both birth_date and death_date set has
\* death_date strictly after birth_date.
C10_DeathAfterBirth ==
    \A a \in DOMAIN authors :
        authors[a].birth_date # None /\ authors[a].death_date # None
            => authors[a].death_date[1] > authors[a].birth_date[1]

AllDigits(v) == \A i \in 1..Len(v) : v[i] \in Digit

\* the check digit of a 13-digit string as the ISBN-13 standard computes it:
\* the first 12 digits weighted 1,3,1,3,... , summed, and
\* (10 - sum mod 10) mod 10
StdCheckDigit13(v) ==
    LET d(i) == CharInt(v[i])
        sum  == d(1) + 3 * d(2) + d(3) + 3 * d(4) + d(5) + 3 * d(6)
                + d(7) + 3 * d(8) + d(9) + 3 * d(10) + d(11) + 3 * d(12)
    IN  (10 - (sum % 10)) % 10

\* v2 is v1 with exactly one digit replaced by a different digit
OneDigitReplaced(v1, v2) ==
    /\ Len(v1) = 13 /\ Len(v2) = 13 /\ AllDigits(v1) /\ AllDigits(v2)
    /\ Cardinality({i \in 1..13 : v1[i] # v2[i]}) = 1

\* C7: a 13-digit string is accepted by the ISBN-13 check exactly when its
\* last digit is the standard check digit of its first twelve; and replacing
\* one digit of an accepted string by another digit gives a rejected string.
C7_Isbn13CheckDigit ==
    /\ [](Len(isbn_v) = 13 /\ AllDigits(isbn_v)
            => (isbn_r.isbn13 <=> CharInt(isbn_v[13]) = StdCheckDigit13(isbn_v)))
    /\ [][isbn_r.isbn13 /\ OneDigitReplaced(isbn_v, isbn_v') => ~isbn_r'.isbn13]_vars

\* C7 witness: a valid ISBN-13 with one digit replaced has been checked
C7_Witness ==
    /\ OneDigitReplaced(Str13Gatsby, isbn_v)
    /\ isbn_n.edits = 1
    /\ ~isbn_r.isbn13

\* ISBN-10 / ISBN-13 validity of a separator-free string, by the standards
StdIsbn10(s) ==
    /\ Len(s) = 10
    /\ \A i \in 1..9 : s[i] \in Digit
    /\ s[10] \in Digit \cup {"X"}
    /\ LET d(i) == IF s[i] = "X" THEN 10 ELSE CharInt(s[i])
       IN  (10 * d(1) + 9 * d(2) + 8 * d(3) + 7 * d(4) + 6 * d(5) + 5 * d(6)
            + 4 * d(7) + 3 * d(8) + 2 * d(9) + d(10)) % 11 = 0
StdIsbn13(s) ==
    Len(s) = 13 /\ AllDigits(s) /\ CharInt(s[13]) = StdCheckDigit13(s)

\* C8: an isbn is accepted when, hyphens and spaces removed, it is a valid
\* ISBN-10 or ISBN-13, and the value kept is the stripped string; any other
\* isbn is rejected.
C8_SeparatorsStripped ==
    LET stripped == Remove(Remove(isbn_v, "-"), " ")
    IN  IF StdIsbn10(stripped) \/ StdIsbn13(stripped)
        THEN isbn_r.field = [ok |-> TRUE, value |-> stripped]
        ELSE ~isbn_r.field.ok

\* C9: the slug "Science Fiction!!" is accepted and kept as
\* "science-fiction"; the slug "---" is rejected.
C9_ScienceFictionSlug ==
    /\ slug_v = StrScienceFiction
          => slug_r.field = [ok |-> TRUE, value |-> StrScienceFictionSlug]
    /\ slug_v = StrHyphens => ~slug_r.field.ok

(***************************************************************************)
(* SpecAge                                                                 *)
(***************************************************************************)
AgeOthers == UNCHANGED <<storeVars, isbnVars, slugVars, concVars,
                        db, social_media, keywords, lists>>
AgeBirthSet == AgeOthers /\ \E b \in {None} \cup {Some(x) : x \in AgeDates} : AgeSetBirth(b)
AgeDeathSet == AgeOthers /\ \E d \in {None} \cup {Some(x) : x \in AgeDates} : AgeSetDeath(d)

NextAge ==
    \/ AgeBirthSet
    \/ AgeDeathSet

AgeStart ==
    /\ InitAge /\ StoreIdle /\ IsbnIdle /\ SlugIdle /\ ConcIdle
    /\ DbIdle /\ SocialIdle /\ KeywordsIdle /\ ListsIdle

SpecAge == AgeStart /\ [][NextAge]_vars

\* a date is not after another
DateLeq(a, b) ==
    \/ a.year < b.year
    \/ a.year = b.year /\ a.month < b.month
    \/ a.year = b.year /\ a.month = b.month /\ a.day <= b.day

AgeEnd == IF calc.death_date # None THEN calc.death_date[1] ELSE calc.today

\* the number of anniversaries of birth that are not after end
WholeYears(birth, end) ==
    Cardinality({n \in 1..100 :
                   DateLeq(Date(birth.year + n, birth.month, birth.day), end)})

\* C11: get_age() is None exactly when birth_date is unset; otherwise it is
\* end.year - birth.year, less one when (end.month, end.day) is earlier than
\* (birth.month, birth.day), with end the death_date if set and else today;
\* that is the number of whole years from birth to end when end is not
\* before birth, and then it is not negative; born 1896-09-24 and dead
\* 1940-12-21 gives 44.
C11_GetAge ==
    /\ calc.age = None <=> calc.birth_date = None
    /\ calc.birth_date # None =>
         LET b == calc.birth_date[1]
             e == AgeEnd
             earlier == \/ e.month < b.month
                        \/ e.month = b.month /\ e.day < b.day
         IN  /\ calc.age[1] = e.year - b.year - (IF earlier THEN 1 ELSE 0)
             /\ DateLeq(b, e) => calc.age[1] >= 0 /\ calc.age[1] = WholeYears(b, e)
    /\ calc.birth_date = Some(AgeBirth) /\ calc.death_date = Some(AgeDeath)
         => calc.age = Some(44)

\* Fitzgerald's dates were given and get_age() answered
C11_Witness ==
    /\ calc.birth_date = Some(AgeBirth)
    /\ calc.death_date = Some(AgeDeath)
    /\ calc.age # None

\* an update of the document id of a collection wrote the fields of p, put
\* a later updated_at, and left the other fields and documents alone
OnlySupplied(before, after, id, p) ==
    /\ DOMAIN after = DOMAIN before
    /\ \A i \in DOMAIN before \ {id} : after[i] = before[i]
    /\ \A f \in DOMAIN before[id] :
          IF f \in p.set THEN after[id][f] = p.val[f]
          ELSE IF f = "updated_at" THEN after[id][f] > before[id][f]
          ELSE after[id][f] = before[id][f]

\* C12: a successful Book update that supplies only title sets title to the
\* supplied value, advances updated_at and leaves every other field of that
\* Book and every other stored entity unchanged; in general a successful
\* update of a Book, an Author or a Category that supplies some fields
\* changes those fields and updated_at and nothing else.
C12_PartialUpdateFrame ==
    [][ /\ resp'.op = "update_book" /\ resp'.outcome = "ok" =>
              \A p \in BookUpdatePayloads :
                 p.set # {} /\ update_book(resp'.id, p)
                    => /\ OnlySupplied(books, books', resp'.id, p)
                       /\ authors' = authors /\ categories' = categories
        /\ resp'.op = "update_author" /\ resp'.outcome = "ok" =>
              \A p \in AuthorUpdatePayloads :
                 p.set # {} /\ update_author(resp'.id, p)
                    => /\ OnlySupplied(authors, authors', resp'.id, p)
                       /\ books' = books /\ categories' = categories
        /\ resp'.op = "update_category" /\ resp'.outcome = "ok" =>
              \A p \in CategoryUpdatePayloads :
                 p.set # {} /\ update_category(resp'.id, p)
                    => /\ OnlySupplied(categories, categories', resp'.id, p)
                       /\ books' = books /\ authors' = authors
      ]_vars

\* Book 1 was updated with the title "New" alone
C12_Witness ==
    /\ resp.op = "update_book" /\ resp.outcome = "ok" /\ resp.id = 1
    /\ 1 \in DOMAIN books
    /\ books[1] = [SeedBooks[1] EXCEPT !.title = Some("New"), !.updated_at = clock]
    /\ books[1].updated_at > SeedBooks[1].updated_at

\* the document get_by_id returns for the id a create answered holds the
\* values of p and the two stamps
Created(coll, r, p, fields) ==
    /\ r.outcome = "ok"
    /\ get_by_id(coll, r.id) # None
    /\ \A f \in fields : get_by_id(coll, r.id)[1][f] = p.val[f]
    /\ get_by_id(coll, r.id)[1].created_at = clock'
    /\ get_by_id(coll, r.id)[1].updated_at = clock'

\* C13: for a Book, an Author and a Category, create(data) with data that
\* satisfies the create schema succeeds, stamps created_at and updated_at,
\* and getById on the returned id gives an entity holding the values
\* supplied (for an Author also death_date, for a Category also slug and
\* parent_id, for a Book also the inventory fields).
C13_CreateRoundTrip ==
    [][ /\ \A p \in BookCreatePayloads :
              create_book(p) /\ BookCreateValid(p)
                 => Created(books', resp', p, BookFields)
        /\ \A p \in AuthorCreatePayloads :
              create_author(p) /\ AuthorCreateValid(p)
                 => Created(authors', resp', p, AuthorFields)
        /\ \A p \in CategoryCreatePayloads :
              create_category(p) /\ CategoryCreateValid(p)
                 => Created(categories', resp',
                            [p EXCEPT !.val.slug = validate_slug(@).value],
                            CategoryFields)
      ]_vars

CollOf(op) ==
    IF op \in {"get_book_by_id", "create_book", "update_book", "delete_book"} THEN books
    ELSE IF op \in {"get_author_by_id", "create_author", "update_author", "delete_author"}
    THEN authors ELSE categories

\* C14 (as the code has it): getById never fails; it returns the entity
\* when the id is well formed, an entity is stored under it and the store
\* did not fail, and in every other case (a malformed id, an id of no
\* stored entity, a failure of the store) the same not-found indicator
\* None, leaving the store unchanged.
C14_GetByIdNone ==
    [][ resp'.op \in GetOps =>
          \A raised \in BOOLEAN :
             get_request(resp'.op, CollOf(resp'.op), resp'.id, raised)
                => /\ resp'.outcome \in {"ok", "None"}
                   /\ resp'.outcome = "ok"
                         <=> /\ ObjectIdIsValid(resp'.id)
                             /\ resp'.id \in DOMAIN CollOf(resp'.op)
                             /\ ~raised
                   /\ StoreUnchanged
      ]_vars

\* a get with a malformed id was answered None
C14_Witness ==
    /\ resp.op \in GetOps
    /\ ~ObjectIdIsValid(resp.id)
    /\ resp.outcome = "None"

\* C14 (as stated): getById with an id that is not well formed fails with
\* InvalidIdentifier, an answer other than the not-found indicator.
C14_InvalidIdentifier ==
    [][ \A op \in GetOps : \A id \in IdInputs : \A raised \in BOOLEAN :
          get_request(op, CollOf(op), id, raised) /\ ~ObjectIdIsValid(id)
             => resp'.outcome = "InvalidIdentifier"
      ]_vars

\* what the services raise for an absent entity: BookNotFoundException, and
\* for authors and categories a LibraryException saying "no encontrado"
NotFoundErrors == {"BookNotFoundException", "LibraryException"}

NotFoundAnswer == resp'.outcome \in NotFoundErrors /\ StoreUnchanged

C16_AbsentIs404 ==
    [][ /\ resp'.op \in GetOps \cup UpdateOps \cup DeleteOps
        /\ get_by_id(CollOf(resp'.op), resp'.id) = None
        /\ resp'.outcome # "RequestValidationError"
        => http_status(resp'.op, resp'.outcome) = 404
      ]_vars

\* the data break a validation rule of the entity: a field out of range, an
\* ISBN that fails its check, available_copies above total_copies, a slug
\* with nothing left after normalisation, a birth date in the future, a
\* death date not after the birth date
BookInvalid(p) ==
    \/ "title" \in p.set /\ ~TitleOk(p.val.title)
    \/ "isbn" \in p.set /\ ~BookIsbnField(p.val.isbn).ok
    \/ "total_copies" \in p.set /\ p.val.total_copies < 1
    \/ SuppliesOverstock(p)
AuthorInvalid(p) ==
    \/ "name" \in p.set /\ ~NameOk(p.val.name, 2, 100)
    \/ "birth_date" \in p.set /\ ~validate_birth_date(p.val.birth_date)
    \/ /\ {"birth_date", "death_date"} \subseteq p.set
       /\ p.val.birth_date # None /\ p.val.death_date # None
       /\ p.val.death_date[1] <= p.val.birth_date[1]
CategoryInvalid(p) ==
    \/ "name" \in p.set /\ ~NameOk(p.val.name, 2, 50)
    \/ "slug" \in p.set /\ ~validate_slug(p.val.slug).ok

Refused400 == http_status(resp'.op, resp'.outcome) = 400 /\ StoreUnchanged

\* C17: a create or update request whose input fails validation is answered
\* with status 400 and leaves the store unchanged.
C17_InvalidIs400 ==
    [][ /\ resp'.op = "create_book" =>
              \A p \in BookCreatePayloads : BookInvalid(p) /\ create_book(p) => Refused400
        /\ resp'.op = "update_book" =>
              \A p \in BookUpdatePayloads :
                 BookInvalid(p) /\ update_book(resp'.id, p) => Refused400
        /\ resp'.op = "create_author" =>
              \A p \in AuthorCreatePayloads : AuthorInvalid(p) /\ create_author(p) => Refused400
        /\ resp'.op = "update_author" =>
              \A p \in AuthorUpdatePayloads :
                 AuthorInvalid(p) /\ update_author(resp'.id, p) => Refused400
        /\ resp'.op = "create_category" =>
              \A p \in CategoryCreatePayloads :
                 CategoryInvalid(p) /\ create_category(p) => Refused400
        /\ resp'.op = "update_category" =>
              \A p \in CategoryUpdatePayloads :
                 CategoryInvalid(p) /\ update_category(resp'.id, p) => Refused400
      ]_vars

(***************************************************************************)
(* SpecSeq: get, delete and get_category_tree requests in any number and   *)
(* order; none of them reads the clock.                                    *)
(***************************************************************************)
SeqOthers == UNCHANGED <<clock, isbnVars, slugVars, calcVars, concVars>>

SeqGet ==
    /\ SeqOthers
    /\ \E id \in IdInputs, raised \in BOOLEAN :
          \/ get_request("get_book_by_id", books, id, raised)
          \/ get_request("get_author_by_id", authors, id, raised)
          \/ get_request("get_category_by_id", categories, id, raised)
SeqDelete ==
    /\ SeqOthers
    /\ \E id \in IdInputs :
          \/ delete_book(id)
          \/ delete_author(id)
          \/ delete_category(id)
SeqTree == SeqOthers /\ get_tree_request

NextSeq ==
    \/ SeqGet
    \/ SeqDelete
    \/ SeqTree

SpecSeq == Init /\ [][NextSeq]_vars

\* where the nodes of a tree put their categories: <<category, depth, the
\* category of the node above or BadId for a root>>
RECURSIVE Placed(_, _)
Placed(t, above) ==
    {<<t.category, t.depth, above>>}
       \cup UNION {Placed(k, t.category) : k \in t.children}
Placements(forest) == UNION {Placed(t, BadId) : t \in forest}

\* C18: the forest getTree() returns holds every stored category exactly
\* once: a category with no parent_id as a root at depth 0, and a category
\* with a parent_id among the children of the category its parent_id names,
\* one deeper than that category.
C18_TreeHoldsEveryCategory ==
    resp.op = "get_category_tree" =>
       LET P == Placements(get_category_tree(categories))
       IN  \A c \in DOMAIN categories :
              /\ Cardinality({x \in P : x[1] = c}) = 1
              /\ categories[c].parent_id = None => <<c, 0, BadId>> \in P
              /\ categories[c].parent_id # None =>
                    \E x \in P : \E y \in P :
                       /\ x[1] = c /\ x[3] = categories[c].parent_id[1]
                       /\ y[1] = x[3] /\ x[2] = y[2] + 1

(***************************************************************************)
(* SpecConc                                                                *)
(***************************************************************************)
ConcOthers == UNCHANGED <<isbnVars, slugVars, calcVars>>

LoadBook ==
    /\ ConcOthers
    /\ \E r \in Requests, id \in IdInputs, p \in BookPayloads(OneField(BookFields)) :
          BookUpdateValid(p)
             /\ update_load(r, "update_book", books, "BookNotFoundException", id, p)
LoadAuthor ==
    /\ ConcOthers
    /\ \E r \in Requests, id \in IdInputs, p \in AuthorPayloads(OneField(AuthorFields)) :
          AuthorUpdateValid(p)
             /\ update_load(r, "update_author", authors, "LibraryException", id, p)
SaveBook   == ConcOthers /\ clock' = Now /\ \E r \in Requests : update_book_save(r)
SaveAuthor == ConcOthers /\ clock' = Now /\ \E r \in Requests : update_author_save(r)

NextConc ==
    \/ LoadBook
    \/ LoadAuthor
    \/ SaveBook
    \/ SaveAuthor

ConcStart ==
    /\ InitStore /\ IsbnIdle /\ SlugIdle /\ CalcIdle
    /\ inflight = [r \in Requests |-> NoRequest]

SpecConc == ConcStart /\ [][NextConc]_vars

\* the requests r and q updated the same entity, with no field in common,
\* and both have saved
BothSaved(r, q) ==
    /\ r # q
    /\ inflight[r].pc = "done" /\ inflight[q].pc = "done"
    /\ inflight[r].doc # None /\ inflight[q].doc # None
    /\ inflight[r].op = inflight[q].op /\ inflight[r].id = inflight[q].id
    /\ inflight[r].p.set \cap inflight[q].p.set = {}

\* C19: when two updates of the same entity that supply disjoint sets of
\* fields have both been served, in whatever interleaving of their loads
\* and saves, the stored entity carries the values both supplied.
C19_BothUpdatesKept ==
    \A r \in Requests : \A q \in Requests :
       BothSaved(r, q) =>
          \A f \in inflight[r].p.set :
             CollOf(inflight[r].op)[inflight[r].id][f] = inflight[r].p.val[f]

\* the fields of a Book create other than the two inventory fields are
\* acceptable, and both inventory fields are supplied and in range
InventorySupplied(p) ==
    /\ {"available_copies", "total_copies"} \subseteq p.set
    /\ TitleOk(p.val.title) /\ IsbnRegex(p.val.isbn)
    /\ ObjectIdIsValid(p.val.author_id) /\ ObjectIdIsValid(p.val.category_id)
    /\ p.val.available_copies >= 0 /\ p.val.total_copies >= 1

\* C20: the inventory validator applied on Book create refuses an input
\* exactly when available_copies > total_copies, comparing with the
\* total_copies supplied: an input with total_copies >= 1 and
\* 0 <= available_copies <= total_copies, such as available_copies = 3 with
\* total_copies = 5, is not refused by it.
C20_CreateInventoryBound ==
    [][ resp'.op = "create_book" =>
          \A p \in BookCreatePayloads :
             InventorySupplied(p) /\ create_book(p)
                => (resp'.outcome = "RequestValidationError"
                      <=> p.val.available_copies > p.val.total_copies)
      ]_vars

\* following parent_id from category id for at most `steps` steps arrives at
\* a stored category that has no parent
RECURSIVE ReachesRoot(_, _)
ReachesRoot(id, steps) ==
    /\ id \in DOMAIN categories
    /\ \/ categories[id].parent_id = None
       \/ /\ steps > 0
          /\ ReachesRoot(categories[id].parent_id[1], steps - 1)

\* C21: whatever Category creates, updates and deletes were served, the
\* parent_id relation over the stored categories is a forest: a category has
\* no parent or one, none is its own parent, and following parent_id from any
\* stored category arrives at a category without parent (no cycle).
C21_ParentIsForest ==
    \A c \in DOMAIN categories :
       /\ categories[c].parent_id # Some(c)
       /\ ReachesRoot(c, Cardinality(DOMAIN categories))

(***************************************************************************)
(* The store connection  (config/database.py, main.py).                    *)
(* db.client is the module global _mongodb_client: None or the client      *)
(* object it refers to; db.status says of every client object created so   *)
(* far how far it got: "created" (AsyncIOMotorClient(uri) returned),       *)
(* "connected" (the ping was answered), "ready" (init_beanie returned) or  *)
(* "closed" (client.close() was called).  db.phase is the phase of the     *)
(* process, db.got what get_database() did when it was the last call       *)
(* ("none" after any other call).                                          *)
(***************************************************************************)
MaxClients == 3       \* client objects created in one behaviour

InitOutcomes == {"ok", "ping_failed", "init_beanie_failed"}

InitDb == db = [phase |-> "down", client |-> None, status |-> <<>>, got |-> "none"]

\* a client object is truthy, None is not
Truthy(client) == client # None

\* init_db() : the global is assigned before the ping; `except: raise`
\* leaves it assigned
init_db(outcome) ==
    [db EXCEPT !.client = Some(Len(db.status) + 1),
               !.status = Append(@, CASE outcome = "ping_failed" -> "created"
                                      [] outcome = "init_beanie_failed" -> "connected"
                                      [] OTHER -> "ready")]

\* close_db() : closes the client, the global keeps referring to it
close_db ==
    IF Truthy(db.client)
    THEN [db EXCEPT !.status[db.client[1]] = "closed"]
    ELSE db

\* get_database()
get_database == IF ~Truthy(db.client) THEN "RuntimeError" ELSE "handle"

\* startup_event : await init_db() ; an exception of init_db ends the start-up
startup_event(outcome) ==
    /\ db.phase = "down"
    /\ Len(db.status) < MaxClients
    /\ db' = [init_db(outcome) EXCEPT !.got = "none",
                  !.phase = IF outcome = "ok" THEN "up" ELSE "failed"]

\* shutdown_event : logs "Shutting down Library Microservice..."
shutdown_event ==
    /\ db.phase = "up"
    /\ db' = [db EXCEPT !.phase = "stopped", !.got = "none"]

\* the functions of config/database.py called while the process lives
CallInitDb(outcome) ==
    /\ db.phase \in {"down", "up"}
    /\ Len(db.status) < MaxClients
    /\ db' = [init_db(outcome) EXCEPT !.got = "none"]
CallCloseDb ==
    /\ db.phase \in {"down", "up"}
    /\ db' = [close_db EXCEPT !.got = "none"]
CallGetDatabase ==
    /\ db.phase # "stopped"
    /\ db' = [db EXCEPT !.got = get_database]

DbOthers == UNCHANGED <<storeVars, isbnVars, slugVars, concVars,
                        calc, social_media, keywords, lists>>

DbStartup  == DbOthers /\ \E outcome \in InitOutcomes : startup_event(outcome)
DbShutdown == DbOthers /\ shutdown_event
DbInit     == DbOthers /\ \E outcome \in InitOutcomes : CallInitDb(outcome)
DbClose    == DbOthers /\ CallCloseDb
DbGet      == DbOthers /\ CallGetDatabase

NextDb ==
    \/ DbStartup
    \/ DbShutdown
    \/ DbInit
    \/ DbClose
    \/ DbGet

DbStart ==
    /\ InitDb /\ StoreIdle /\ IsbnIdle /\ SlugIdle /\ ConcIdle
    /\ AgeIdle /\ SocialIdle /\ KeywordsIdle /\ ListsIdle

SpecDb == DbStart /\ [][NextDb]_vars

\* the client objects that hold an open connection handle
OpenClients == {i \in DOMAIN db.status : db.status[i] \in {"connected", "ready"}}

\* C22: the connection the start-up event opened is closed by the shutdown
\* event: once the shutdown event has completed no client holds an open
\* connection handle.
C22_ClosedAtShutdown ==
    db.phase = "stopped" => OpenClients = {}

\* the database is initialized: the last init_db() completed and close_db()
\* was not called since
Initialized == db.client # None /\ db.status[db.client[1]] = "ready"

\* C23: get_database() raises RuntimeError whenever the database is not
\* initialized (init_db() never completed, also when it failed at the ping or
\* at init_beanie, or close_db() was called) and returns a handle only
\* between a successful init_db() and close_db().
C23_GetDatabaseGuard ==
    db.got # "none" => (db.got = "RuntimeError" <=> ~Initialized)

(***************************************************************************)
(* Author.validate_social_media  (models/author.py).  A dict is the        *)
(* sequence of its <<key, value>> items in insertion order, the keys       *)
(* distinct; a key is a sequence of characters.                            *)
(***************************************************************************)
MaxProfiles == 3      \* items of the mapping given to social_media

StrTwitter == <<"t","w","i","t","t","e","r">>

\* allowed_platforms = ['twitter', 'facebook', 'instagram', 'linkedin', 'goodreads']
allowed_platforms ==
    {StrTwitter,
     <<"f","a","c","e","b","o","o","k">>,
     <<"i","n","s","t","a","g","r","a","m">>,
     <<"l","i","n","k","e","d","i","n">>,
     <<"g","o","o","d","r","e","a","d","s">>}

\* str.lower()
Lower(v) == [i \in 1..Len(v) |-> LowerChar(v[i])]

DictKeys(d) == {d[i][1] : i \in 1..Len(d)}

\* d[key] = value : replaces the value of the item with that key, or adds the
\* item at the end
DictSet(d, key, value) ==
    IF key \in DictKeys(d)
    THEN [i \in 1..Len(d) |-> IF d[i][1] = key THEN <<key, value>> ELSE d[i]]
    ELSE Append(d, <<key, value>>)

\* the key an accepted item is stored under (StoredKeyAsGiven is the
\* mutation that stores the key as it was given)
StoredKeyAsGiven(platform) == platform
StoredKey(platform) == Lower(platform)

\* for platform, profile in v.items(): ... , on the items from the i-th on
RECURSIVE SocialLoop(_, _, _)
SocialLoop(v, i, validated) ==
    IF i > Len(v) THEN validated
    ELSE SocialLoop(v, i + 1,
                    IF Lower(v[i][1]) \in allowed_platforms
                    THEN DictSet(validated, StoredKey(v[i][1]), v[i][2])
                    ELSE validated)

\* the @validator('social_media') body; v is None (a Some(dict) otherwise)
validate_social_media(v) ==
    IF v = None \/ v[1] = <<>> THEN <<>>
    ELSE SocialLoop(v[1], 1, <<>>)

\* the keys and profiles tried
SocialKeyInputs == {StrTwitter, <<"T","w","i","t","t","e","r">>, <<"G","o","o","d","R","e","a","d","s">>,
                    <<"m","y","s","p","a","c","e">>, <<"X">>}
ProfileInputs == {"@a", "@b"}

SocialOutcome(v) == [v |-> v, r |-> validate_social_media(v)]

InitSocial == social_media \in {SocialOutcome(None), SocialOutcome(Some(<<>>))}

\* validate the mapping with one more item
SocialPut(key, profile) ==
    /\ Len(IF social_media.v = None THEN <<>> ELSE social_media.v[1]) < MaxProfiles
    /\ social_media' =
          SocialOutcome(Some(DictSet(IF social_media.v = None THEN <<>>
                                     ELSE social_media.v[1], key, profile)))

SocialOthers == UNCHANGED <<storeVars, isbnVars, slugVars, concVars,
                            calc, db, keywords, lists>>

SocialGive == SocialOthers /\ \E key \in SocialKeyInputs, profile \in ProfileInputs : SocialPut(key, profile)

NextSocial ==
    \/ SocialGive

SocialStart ==
    /\ InitSocial /\ StoreIdle /\ IsbnIdle /\ SlugIdle /\ ConcIdle
    /\ AgeIdle /\ DbIdle /\ KeywordsIdle /\ ListsIdle

SpecSocial == SocialStart /\ [][NextSocial]_vars

\* the dict given, {} for None
SocialGiven == IF social_media.v = None THEN <<>> ELSE social_media.v[1]

\* C24: the social-media validator returns a mapping whose keys are exactly
\* the lower-cased forms of the input keys that, lower-cased, are one of
\* twitter, facebook, instagram, linkedin, goodreads; every other key is
\* dropped; each kept key maps to a value the input gave under a key with
\* that lower-cased form; an empty or missing input gives the empty mapping;
\* the validator applied to its own output returns it unchanged.
C24_SocialMediaFiltered ==
    LET given == SocialGiven
        r == social_media.r
    IN  /\ DictKeys(r) = {Lower(k) : k \in {q \in DictKeys(given) : Lower(q) \in allowed_platforms}}
        /\ \A i \in 1..Len(r) : \A j \in 1..Len(r) : r[i][1] = r[j][1] => i = j
        /\ \A i \in 1..Len(r) :
              \E j \in 1..Len(given) :
                 Lower(given[j][1]) = r[i][1] /\ given[j][2] = r[i][2]
        /\ given = <<>> => r = <<>>
        /\ validate_social_media(Some(r)) = r

\* a mapping with a capitalised allowed key, the same key in lower case with
\* another profile, and a key that is not allowed
C24_Witness ==
    /\ Len(SocialGiven) = 3
    /\ \E i, j, k \in 1..3 :
          /\ SocialGiven[i][1] = StrTwitter
          /\ SocialGiven[j][1] # StrTwitter /\ Lower(SocialGiven[j][1]) = StrTwitter
          /\ SocialGiven[i][2] # SocialGiven[j][2]
          /\ Lower(SocialGiven[k][1]) \notin allowed_platforms
    /\ Len(social_media.r) = 1

(***************************************************************************)
(* Category.validate_keywords and Category.add_keyword                     *)
(*   (models/category.py).  A keyword is a sequence of characters.         *)
(***************************************************************************)
MaxGiven    == 2      \* entries of the list given to the keywords field
MaxKeywords == 3      \* length up to which add_keyword is followed

\* str.strip()
RECURSIVE Strip(_)
Strip(s) ==
    IF s = <<>> THEN s
    ELSE IF Head(s) = " " THEN Strip(Tail(s))
    ELSE IF s[Len(s)] = " " THEN Strip(SubSeq(s, 1, Len(s) - 1))
    ELSE s

\* x in list
InList(x, list) == \E i \in 1..Len(list) : list[i] = x

\* the loop of validate_keywords on the entries from the i-th on; `seen`
\* holds what `normalized` holds
RECURSIVE KeywordsLoop(_, _, _)
KeywordsLoop(v, i, normalized) ==
    IF i > Len(v) THEN normalized
    ELSE KeywordsLoop(v, i + 1,
                      IF Strip(v[i]) # <<>> /\ ~InList(Lower(Strip(v[i])), normalized)
                      THEN Append(normalized, Lower(Strip(v[i])))
                      ELSE normalized)

\* the @validator('keywords') body
validate_keywords(v) ==
    IF v = <<>> THEN <<>> ELSE KeywordsLoop(v, 1, <<>>)

\* Category.add_keyword (add_keyword_unchecked is the mutation without the
\* `not in self.keywords` test)
add_keyword_unchecked(self_keywords, keyword) ==
    IF keyword # <<>> /\ Strip(keyword) # <<>>
    THEN Append(self_keywords, Lower(Strip(keyword)))
    ELSE self_keywords
add_keyword(self_keywords, keyword) ==
    IF keyword # <<>> /\ Strip(keyword) # <<>>
    THEN LET normalized == Lower(Strip(keyword))
         IN  IF ~InList(normalized, self_keywords)
             THEN Append(self_keywords, normalized)
             ELSE self_keywords
    ELSE self_keywords

\* the keywords tried
KeywordInputs == {<<>>, <<" ">>, <<"a">>, <<"A">>, <<" ", "a">>, <<"B", " ">>,
                  <<"a", "B">>}

\* keywords.given: the list the field was given; keywords.list: the
\* document's keywords; keywords.added: add_keyword was called
InitKeywords == keywords = [given |-> <<>>, list |-> validate_keywords(<<>>),
                            added |-> FALSE]

\* the document is built with one more entry in the list given
KeywordsAppend(k) ==
    /\ ~keywords.added
    /\ Len(keywords.given) < MaxGiven
    /\ keywords' = [given |-> Append(keywords.given, k),
                    list  |-> validate_keywords(Append(keywords.given, k)),
                    added |-> FALSE]

KeywordsAdd(k) ==
    /\ Len(keywords.list) < MaxKeywords
    /\ keywords' = [keywords EXCEPT !.list = add_keyword(@, k), !.added = TRUE]

KeywordsOthers == UNCHANGED <<storeVars, isbnVars, slugVars, concVars,
                              calc, db, social_media, lists>>

KeywordsGive == KeywordsOthers /\ \E k \in KeywordInputs : KeywordsAppend(k)
KeywordsCall == KeywordsOthers /\ \E k \in KeywordInputs : KeywordsAdd(k)

NextKeywords ==
    \/ KeywordsGive
    \/ KeywordsCall

KeywordsStart ==
    /\ InitKeywords /\ StoreIdle /\ IsbnIdle /\ SlugIdle /\ ConcIdle
    /\ AgeIdle /\ DbIdle /\ SocialIdle /\ ListsIdle

SpecKeywords == KeywordsStart /\ [][NextKeywords]_vars

\* a keyword is trimmed, lower-case and not blank
NormalKeyword(k) ==
    /\ k # <<>> /\ Head(k) # " " /\ k[Len(k)] # " "
    /\ \A i \in 1..Len(k) : \A j \in 1..26 : k[i] # UpperLetters[j]

NoDuplicate(list) ==
    \A i \in 1..Len(list) : \A j \in 1..Len(list) : list[i] = list[j] => i = j

IsPrefix(a, b) == Len(a) <= Len(b) /\ SubSeq(b, 1, Len(a)) = a

\* position in `given` of the first entry whose trimmed lower-case form is k
FirstGiven(given, k) ==
    CHOOSE i \in 1..Len(given) :
       /\ Lower(Strip(given[i])) = k
       /\ \A j \in 1..(i - 1) : Lower(Strip(given[j])) # k

MaxListLen == 3       \* length up to which add_genre / add_award are followed

\* Author.add_genre (add_genre_unchecked is the mutation without the
\* `not in self.genres` test)
add_genre_unchecked(self_genres, genre) ==
    IF genre # "" THEN Append(self_genres, genre) ELSE self_genres
add_genre(self_genres, genre) ==
    IF genre # "" /\ ~InList(genre, self_genres)
    THEN Append(self_genres, genre)
    ELSE self_genres

\* Author.add_award
add_award(self_awards, award) ==
    IF award # "" /\ ~InList(award, self_awards)
    THEN Append(self_awards, award)
    ELSE self_awards

\* the genres and awards tried
GenreInputs == {"", "Fantasy", "fantasy", "Horror"}
AwardInputs == {"", "Hugo", "Nebula"}

\* lists.op and lists.arg: the last call and its argument
InitLists ==
    \E g \in {<<>>, <<"Horror">>}, a \in {<<>>, <<"Hugo">>} :
       lists = [genres |-> g, awards |-> a, op |-> "none", arg |-> ""]

ListsAddGenre(genre) ==
    /\ Len(lists.genres) < MaxListLen
    /\ lists' = [lists EXCEPT !.genres = add_genre(@, genre),
                              !.op = "add_genre", !.arg = genre]

ListsAddAward(award) ==
    /\ Len(lists.awards) < MaxListLen
    /\ lists' = [lists EXCEPT !.awards = add_award(@, award),
                              !.op = "add_award", !.arg = award]

ListsOthers == UNCHANGED <<storeVars, isbnVars, slugVars, concVars,
                           calc, db, social_media, keywords>>

ListsGenre == ListsOthers /\ \E genre \in GenreInputs : ListsAddGenre(genre)
ListsAward == ListsOthers /\ \E award \in AwardInputs : ListsAddAward(award)

NextLists ==
    \/ ListsGenre
    \/ ListsAward

ListsStart ==
    /\ InitLists /\ StoreIdle /\ IsbnIdle /\ SlugIdle /\ ConcIdle
    /\ AgeIdle /\ DbIdle /\ SocialIdle /\ KeywordsIdle

SpecLists == ListsStart /\ [][NextLists]_vars

\* what a call with argument arg may do to a list
AppendOnly(before, after, arg) ==
    /\ NoDuplicate(after)
    /\ IsPrefix(before, after)
    /\ IF arg = "" \/ InList(arg, before)
       THEN after = before
       ELSE after = Append(before, arg)

\* C26: from a genres (awards) list without duplicates, after any add_genre
\* (add_award) calls the list has no duplicates; a call leaves the list as it
\* is (empty argument, or value already in it) or appends the value at the
\* end: the list before is a prefix of the list after, nothing is removed or
\* moved.
C26_AppendOnlyNoDuplicates ==
    [][ /\ lists'.op = "add_genre" =>
              /\ AppendOnly(lists.genres, lists'.genres, lists'.arg)
              /\ lists'.awards = lists.awards
        /\ lists'.op = "add_award" =>
              /\ AppendOnly(lists.awards, lists'.awards, lists'.arg)
              /\ lists'.genres = lists.genres
      ]_vars

\* add_genre was called with a genre the list holds already, the list
\* holding two genres that differ in case only
C26_Witness ==
    /\ lists.op = "add_genre" /\ lists.arg = "Fantasy"
    /\ lists.genres = <<"Fantasy", "fantasy">>
    /\ lists.awards = <<"Hugo", "Nebula">>

\* C27: whatever Book creates and updates were served, every stored Book has
\* a title that is a string of 1 to 200 characters; an update that supplies
\* title as null or as a string out of range leaves no stored Book without a
\* valid title.
C27_TitleValid ==
    \A b \in DOMAIN books : TitleOk(books[b].title)

\* a canonical slug: not empty, lower-case letters, digits and hyphens only,
\* no hyphen first or last, no two hyphens in a row
CanonicalSlug(g) ==
    /\ g # <<>>
    /\ \A i \in 1..Len(g) : g[i] \in SlugSafe
    /\ Head(g) # "-" /\ g[Len(g)] # "-"
    /\ \A i \in 1..(Len(g) - 1) : ~(g[i] = "-" /\ g[i + 1] = "-")

BookNoField     == BookPayloads({{}})
AuthorNoField   == AuthorPayloads({{}})
CategoryNoField == CategoryPayloads({{}})

\* C29: an update of a stored Book, Author or Category whose payload supplies
\* no field writes nothing: it succeeds with the entity as stored, and every
\* field of that entity, updated_at too, and every other stored entity is
\* unchanged.
C29_EmptyUpdateWritesNothing ==
    [][ /\ resp'.op = "update_book" /\ get_book_by_id(resp'.id) # None =>
              \A p \in BookNoField :
                 update_book(resp'.id, p)
                    => resp'.outcome = "ok" /\ StoreUnchanged
        /\ resp'.op = "update_author" /\ get_author_by_id(resp'.id) # None =>
              \A p \in AuthorNoField :
                 update_author(resp'.id, p)
                    => resp'.outcome = "ok" /\ StoreUnchanged
        /\ resp'.op = "update_category" /\ get_category_by_id(resp'.id) # None =>
              \A p \in CategoryNoField :
                 update_category(resp'.id, p)
                    => resp'.outcome = "ok" /\ StoreUnchanged
      ]_vars

\* an update of Book 1 was answered ok at tick 1 and the store is the one of
\* tick 0, updated_at included: the update supplied nothing
C29_Witness ==
    /\ resp.op = "update_book" /\ resp.outcome = "ok" /\ resp.id = 1
    /\ clock = 1
    /\ books = SeedBooks /\ authors = SeedAuthors /\ categories = SeedCategories

(***************************************************************************)
(* SpecRace : update_book requests, in their two steps, and delete_book    *)
(* requests served concurrently                                            *)
(***************************************************************************)
RaceDelete ==
    /\ ConcOthers
    /\ UNCHANGED <<inflight, clock>>
    /\ \E id \in IdInputs : delete_book(id)

NextRace ==
    \/ LoadBook
    \/ SaveBook
    \/ RaceDelete

SpecRace == ConcStart /\ [][NextRace]_vars

\* C30: once delete_book(id) has returned success the Book stays absent:
\* get_book_by_id(id) finds nothing in every later state, also when an update
\* of the same id loaded the Book before the delete and saves after it.
\* (No request of SpecRace creates a Book: a Book found absent that a request
\* holds loaded was deleted, and what is absent is to stay absent.)
C30_DeletedStaysAbsent ==
    [][ \A id \in Ids :
           get_book_by_id(id) = None => get_by_id(books', id) = None ]_vars

====
